---- MODULE Spec2Model ----
(***************************************************************************)
(* Model of the feature queue (src/api/routes.py) and of the progress      *)
(* webhook with its .progress_cache checkpoint (src/progress.py).           *)
(*                                                                         *)
(* Every request handler of the Feature API is one atomic action (one      *)
(* database transaction).  print_progress_summary, with the                *)
(* send_progress_webhook call it makes, is one action of a single caller.  *)
(* RaceSpec and StepSpec take the handlers and the progress cycle apart    *)
(* into their reads and writes, for two callers whose steps interleave.    *)
(* A feature is named in a notification by its id (the payload carries     *)
(* "category name" strings, one per feature).  The payload's percentage,   *)
(* project and timestamp fields are not represented.                       *)
(***************************************************************************)
EXTENDS Integers, Sequences, FiniteSets, TLC

\* ---------------------------------------------------------------- bounds
MaxId == 3            \* features ever created (ids 1..MaxId)
MaxPrio == 5          \* largest priority value a create or skip may assign
MaxBulk == 2          \* largest bulk batch
MaxLegacyCount == 2   \* largest count of an old-format cache file at start
MaxStepFeatures == 2  \* features in the queue while two callers run cycles

VARIABLES
  features,        \* the features table: id -> [priority, passes]
  nextId,          \* the id the store gives to the next inserted row
  cache,           \* the .progress_cache file
  webhook,         \* WEBHOOK_URL is configured
  last,            \* the most recent call and what it returned
  createOnly,      \* history: no skip and no delete has succeeded so far
  everNamed,       \* history: ids named in some delivered notification
  namedSincePass,  \* history: ids named since they last became passing
  txn,             \* per caller: the create, bulk or skip request in progress
  batch,           \* history: id -> first id of the bulk batch that made it
  run              \* per caller: the progress cycle in progress, its locals

vars == <<features, nextId, cache, webhook, last, createOnly, everNamed,
          namedSincePass, txn, batch, run>>

Callers == {1, 2}

Ids == 1..MaxId

\* ------------------------------------------------------------- helpers
Range(s) == {s[k] : k \in 1..Len(s)}

Exists(fs, i) == i \in DOMAIN fs

NoFeatures == [i \in {} |-> [priority |-> 0, passes |-> FALSE]]

\* ORDER BY priority ASC, id ASC
Before(fs, a, b) ==
  \/ fs[a].priority < fs[b].priority
  \/ fs[a].priority = fs[b].priority /\ a < b

RECURSIVE Insert(_, _, _)
Insert(fs, s, x) ==
  IF s = <<>> THEN <<x>>
  ELSE IF Before(fs, x, Head(s)) THEN <<x>> \o s
       ELSE <<Head(s)>> \o Insert(fs, Tail(s), x)

RECURSIVE OrderBy(_, _)
OrderBy(fs, S) ==
  IF S = {} THEN <<>>
  ELSE LET x == CHOOSE y \in S : TRUE
       IN Insert(fs, OrderBy(fs, S \ {x}), x)

\* .filter(Feature.passes == v)
FilterPasses(fs, v) == {i \in DOMAIN fs : fs[i].passes = v}

\* db.query(Feature.priority).order_by(Feature.priority.desc()).first()
MaxPriorityRow(fs) ==
  IF DOMAIN fs = {} THEN 0
  ELSE CHOOSE p \in {fs[i].priority : i \in DOMAIN fs} :
         \A i \in DOMAIN fs : fs[i].priority <= p

NextPriorityNoIncrement(fs) ==
  IF DOMAIN fs = {} THEN 1 ELSE MaxPriorityRow(fs)

\* (max_priority[0] + 1) if max_priority else 1
NextPriority(fs) ==
  IF DOMAIN fs = {} THEN 1 ELSE MaxPriorityRow(fs) + 1

SkipPriorityOverOthers(fs, i) ==
  NextPriority([j \in DOMAIN fs \ {i} |-> fs[j]])

\* skip_feature: the max is taken over every row, the skipped one included
SkipPriority(fs, i) == NextPriority(fs)

BulkPriorityFromOne(start, k) == start + k + 1

BulkPrioritySame(start, k) == start

\* create_features_bulk: priority=start_priority + i
BulkPriority(start, k) == start + k

NewRow(p) == [priority |-> p, passes |-> FALSE]

\* the ids the store gives to n inserted rows: fresh, in insertion order
NewIds(first, n) == first..(first + n - 1)

\* db.add of n rows, then commit
InsertRows(fs, first, n, start) ==
  [i \in DOMAIN fs \cup NewIds(first, n) |->
     IF i \in DOMAIN fs THEN fs[i]
     ELSE NewRow(BulkPriority(start, i - first))]

NextFeatureUnfiltered(fs) ==
  LET s == OrderBy(fs, DOMAIN fs) IN IF s = <<>> THEN 0 ELSE Head(s)

\* get_next_feature: filter passes == False, order, first; 0 stands for None
NextFeature(fs) ==
  LET s == OrderBy(fs, FilterPasses(fs, FALSE))
  IN IF s = <<>> THEN 0 ELSE Head(s)

\* get_all_passing_features: ids of the passing rows in (priority, id) order
AllPassing(fs) == OrderBy(fs, FilterPasses(fs, TRUE))

\* get_stats
Stats(fs) ==
  [passing |-> Cardinality(FilterPasses(fs, TRUE)),
   total |-> Cardinality(DOMAIN fs)]

\* ------------------------------------------------------ Feature API calls
QueueFrame == UNCHANGED <<cache, webhook, everNamed, txn, run>>

\* history: the rows of one bulk batch carry the batch's first id
BatchOfNew(b, first, n) ==
  [i \in DOMAIN b |-> IF i \in NewIds(first, n) THEN first ELSE b[i]]

\* history: a skipped row no longer counts as part of its batch
BatchWithout(b, i) == [b EXCEPT ![i] = 0]

\* POST /features
CreateFeature ==
  \E valid \in BOOLEAN :
    IF ~valid
    THEN /\ last' = [op |-> "create", id |-> 0, result |-> "ValidationError"]
         /\ UNCHANGED <<features, nextId, createOnly, namedSincePass, batch>>
         /\ QueueFrame
    ELSE /\ nextId <= MaxId
         /\ NextPriority(features) <= MaxPrio
         /\ features' = InsertRows(features, nextId, 1, NextPriority(features))
         /\ nextId' = nextId + 1
         /\ last' = [op |-> "create", id |-> nextId, result |-> "ok"]
         /\ UNCHANGED <<createOnly, namedSincePass, batch>>
         /\ QueueFrame

\* POST /features/bulk
CreateFeaturesBulk ==
  \E n \in 0..MaxBulk, valid \in BOOLEAN :
    IF ~valid \/ n = 0
    THEN /\ last' = [op |-> "bulk", id |-> 0, n |-> n,
                     result |-> "ValidationError"]
         /\ UNCHANGED <<features, nextId, createOnly, namedSincePass, batch>>
         /\ QueueFrame
    ELSE /\ nextId + n - 1 <= MaxId
         /\ NextPriority(features) + n - 1 <= MaxPrio
         /\ features' = InsertRows(features, nextId, n, NextPriority(features))
         /\ nextId' = nextId + n
         /\ last' = [op |-> "bulk", id |-> nextId, n |-> n, result |-> "ok"]
         /\ batch' = BatchOfNew(batch, nextId, n)
         /\ UNCHANGED <<createOnly, namedSincePass>>
         /\ QueueFrame

\* GET /features/next
GetNextFeature ==
  /\ last' = [op |-> "next", id |-> NextFeature(features),
              result |-> IF NextFeature(features) = 0 THEN "NotFound"
                         ELSE "ok"]
  /\ UNCHANGED <<features, nextId, createOnly, namedSincePass, batch>>
  /\ QueueFrame

SetPassesToggle(fs, i, v) == [fs EXCEPT ![i].passes = ~fs[i].passes]

\* update_feature: feature.passes = update.passes
SetPasses(fs, i, v) == [fs EXCEPT ![i].passes = v]

\* history: the call before this one was the same set_passes and succeeded
SameUpdate(l, i, v) ==
  l.op = "set_passes" /\ l.result = "ok" /\ l.id = i /\ l.value = v

\* PATCH /features/{feature_id}
UpdateFeature ==
  \E i \in Ids, v \in BOOLEAN :
    IF ~Exists(features, i)
    THEN /\ last' = [op |-> "set_passes", id |-> i, value |-> v,
                     again |-> FALSE, result |-> "NotFound"]
         /\ UNCHANGED <<features, nextId, createOnly, namedSincePass, batch>>
         /\ QueueFrame
    ELSE /\ features' = SetPasses(features, i, v)
         /\ namedSincePass' = IF v THEN namedSincePass
                              ELSE namedSincePass \ {i}
         /\ last' = [op |-> "set_passes", id |-> i, value |-> v,
                     again |-> SameUpdate(last, i, v), result |-> "ok"]
         /\ UNCHANGED <<nextId, createOnly, batch>>
         /\ QueueFrame

SkipOutcomeNoPassesCheck(fs, i) ==
  IF ~Exists(fs, i) THEN "NotFound" ELSE "ok"

\* skip_feature: the two checks made before any write
SkipOutcome(fs, i) ==
  IF ~Exists(fs, i) THEN "NotFound"
  ELSE IF fs[i].passes THEN "InvalidState"
  ELSE "ok"

\* POST /features/{feature_id}/skip
SkipFeature ==
  \E i \in Ids :
    IF SkipOutcome(features, i) # "ok"
    THEN /\ last' = [op |-> "skip", id |-> i,
                     result |-> SkipOutcome(features, i)]
         /\ UNCHANGED <<features, nextId, createOnly, namedSincePass, batch>>
         /\ QueueFrame
    ELSE /\ SkipPriority(features, i) <= MaxPrio
         /\ features' = [features EXCEPT
                           ![i].priority = SkipPriority(features, i)]
         /\ createOnly' = FALSE
         /\ last' = [op |-> "skip", id |-> i, result |-> "ok"]
         /\ batch' = BatchWithout(batch, i)
         /\ UNCHANGED <<nextId, namedSincePass>>
         /\ QueueFrame

\* DELETE /features/{feature_id}
DeleteFeature ==
  \E i \in Ids :
    IF ~Exists(features, i)
    THEN /\ last' = [op |-> "delete", id |-> i, result |-> "NotFound"]
         /\ UNCHANGED <<features, nextId, createOnly, namedSincePass, batch>>
         /\ QueueFrame
    ELSE /\ features' = [j \in DOMAIN features \ {i} |-> features[j]]
         /\ createOnly' = FALSE
         /\ namedSincePass' = namedSincePass \ {i}
         /\ last' = [op |-> "delete", id |-> i, result |-> "ok"]
         /\ UNCHANGED <<nextId, batch>>
         /\ QueueFrame

\* ------------------------------- two callers of create, bulk and skip
\* A handler reads the maximum priority and later writes what it computed
\* from it; here the read and the write are two steps, and the other
\* caller's steps may fall between them.
Idle == [op |-> "idle", id |-> 0, n |-> 0, start |-> 0]

RaceFrame ==
  UNCHANGED <<cache, webhook, everNamed, namedSincePass, last, run>>

\* create_feature up to next_priority
BeginCreate(c) ==
  /\ txn[c] = Idle
  /\ NextPriority(features) <= MaxPrio
  /\ txn' = [txn EXCEPT ![c] = [op |-> "create", id |-> 0, n |-> 1,
                                 start |-> NextPriority(features)]]
  /\ UNCHANGED <<features, nextId, createOnly, batch>>
  /\ RaceFrame

\* create_features_bulk up to start_priority
BeginBulk(c) ==
  \E n \in 1..MaxBulk :
    /\ txn[c] = Idle
    /\ NextPriority(features) + n - 1 <= MaxPrio
    /\ txn' = [txn EXCEPT ![c] = [op |-> "bulk", id |-> 0, n |-> n,
                                   start |-> NextPriority(features)]]
    /\ UNCHANGED <<features, nextId, createOnly, batch>>
    /\ RaceFrame

\* skip_feature up to new_priority, the two checks passed
BeginSkip(c) ==
  \E i \in Ids :
    /\ txn[c] = Idle
    /\ SkipOutcome(features, i) = "ok"
    /\ SkipPriority(features, i) <= MaxPrio
    /\ txn' = [txn EXCEPT ![c] = [op |-> "skip", id |-> i, n |-> 0,
                                   start |-> SkipPriority(features, i)]]
    /\ UNCHANGED <<features, nextId, createOnly, batch>>
    /\ RaceFrame

\* db.add(...) and db.commit() of create_feature and create_features_bulk
CommitInsert(c) ==
  /\ txn[c].op \in {"create", "bulk"}
  /\ nextId + txn[c].n - 1 <= MaxId
  /\ features' = InsertRows(features, nextId, txn[c].n, txn[c].start)
  /\ nextId' = nextId + txn[c].n
  /\ batch' = IF txn[c].op = "bulk"
              THEN BatchOfNew(batch, nextId, txn[c].n) ELSE batch
  /\ txn' = [txn EXCEPT ![c] = Idle]
  /\ UNCHANGED createOnly
  /\ RaceFrame

\* feature.priority = new_priority and db.commit() of skip_feature
CommitSkip(c) ==
  /\ txn[c].op = "skip"
  /\ features' = [features EXCEPT ![txn[c].id].priority = txn[c].start]
  /\ batch' = BatchWithout(batch, txn[c].id)
  /\ createOnly' = FALSE
  /\ txn' = [txn EXCEPT ![c] = Idle]
  /\ UNCHANGED nextId
  /\ RaceFrame

\* ------------------------------------------------------ progress webhook
NoCache == [exists |-> FALSE, count |-> 0, passing_ids |-> {}]

\* an old-format file: {"count": n} and no "passing_ids" key
LegacyCache(n) == [exists |-> TRUE, count |-> n, passing_ids |-> {}]

\* previous, previous_passing_ids as send_progress_webhook reads them
ReadCache(c) ==
  IF c.exists THEN [count |-> c.count, passing_ids |-> c.passing_ids]
  ELSE [count |-> 0, passing_ids |-> {}]

\* json.dumps({"count": passing, "passing_ids": current_passing_ids}); the
\* reader turns the list back into a set
WriteCache(passing, ids) ==
  [exists |-> TRUE, count |-> passing, passing_ids |-> Range(ids)]

\* count_passing_tests: (0, 0) when the API cannot be reached
CountPassingTests(fs, up) ==
  IF up THEN Stats(fs) ELSE [passing |-> 0, total |-> 0]

ProgressNotDecreased(passing, previous) == passing >= previous

\* if passing > previous
ProgressIncreased(passing, previous) == passing > previous

IsOldCacheFormatByCount(prev) == prev.count > 0

IsOldCacheFormatByIds(prev) == prev.passing_ids = {} /\ prev.count = 0

\* is_old_cache_format
IsOldCacheFormat(prev) == prev.passing_ids = {} /\ prev.count > 0

\* current_passing_ids: stays [] when the all-passing request raises
CurrentPassingIds(fs, up) == IF up THEN AllPassing(fs) ELSE <<>>

CompletedTestsUnfiltered(data, prev) ==
  IF IsOldCacheFormat(prev) THEN <<>> ELSE data

\* completed_tests
CompletedTests(data, prev) ==
  IF IsOldCacheFormat(prev) THEN <<>>
  ELSE SelectSeq(data, LAMBDA i : i \notin prev.passing_ids)

NoPayload ==
  [passing |-> 0, total |-> 0, previous_passing |-> 0,
   tests_completed_this_session |-> 0, completed_tests |-> <<>>]

Payload(passing, total, prev, completed) ==
  [passing |-> passing, total |-> total, previous_passing |-> prev.count,
   tests_completed_this_session |-> passing - prev.count,
   completed_tests |-> completed]

CacheAfterNotifyIfDelivered(c, passing, ids, delivered) ==
  IF delivered THEN WriteCache(passing, ids) ELSE c

\* the write that follows the webhook request, outside its try block
CacheAfterNotify(c, passing, ids, delivered) == WriteCache(passing, ids)

BootstrapCacheAlways(c, passing, ids) == WriteCache(passing, ids)

\* the else branch: the cache is written only when the file does not exist
BootstrapCache(c, passing, ids) ==
  IF ~c.exists THEN WriteCache(passing, ids) ELSE c

\* send_progress_webhook: what it sends and what it leaves in the cache file
SendProgressWebhook(passing, total, fs, c, configured, idsUp, sinkUp) ==
  LET prev == ReadCache(c)
      ids == CurrentPassingIds(fs, idsUp)
      quiet == [sent |-> FALSE, delivered |-> FALSE, payload |-> NoPayload,
                fetch |-> "none", cache |-> c]
  IN IF ~configured THEN quiet
     ELSE IF ProgressIncreased(passing, prev.count)
     THEN [sent |-> TRUE, delivered |-> sinkUp,
           payload |-> Payload(passing, total, prev, CompletedTests(ids, prev)),
           fetch |-> IF idsUp THEN "ok" ELSE "failed",
           cache |-> CacheAfterNotify(c, passing, ids, sinkUp)]
     ELSE IF ~c.exists
     THEN [quiet EXCEPT !.fetch = IF idsUp THEN "ok" ELSE "failed",
                        !.cache = BootstrapCache(c, passing, ids)]
     ELSE [quiet EXCEPT !.cache = BootstrapCache(c, passing, ids)]

ProgressSummaryWithoutTotalCheck(fs, c, configured, statsUp, idsUp, sinkUp) ==
  LET stats == CountPassingTests(fs, statsUp)
  IN SendProgressWebhook(stats.passing, stats.total, fs, c, configured,
                         idsUp, sinkUp)

\* print_progress_summary
ProgressSummary(fs, c, configured, statsUp, idsUp, sinkUp) ==
  LET stats == CountPassingTests(fs, statsUp)
  IN IF stats.total > 0
     THEN SendProgressWebhook(stats.passing, stats.total, fs, c, configured,
                              idsUp, sinkUp)
     ELSE [sent |-> FALSE, delivered |-> FALSE, payload |-> NoPayload,
           fetch |-> "none", cache |-> c]

\* history: what the call before this one did, when it was a progress summary
PreviousCall(l) ==
  IF l.op = "cycle"
  THEN [cycle |-> TRUE, statsOk |-> l.statsOk, sent |-> l.sent,
        delivered |-> l.delivered, changed |-> l.changed]
  ELSE [cycle |-> FALSE, statsOk |-> FALSE, sent |-> FALSE,
        delivered |-> FALSE, changed |-> FALSE]

\* one call of print_progress_summary; the store answers the stats request
\* (statsUp) and the all-passing request (idsUp), the sink takes the
\* notification (sinkUp), or they do not
ProgressCall(statsUp, idsUp, sinkUp) ==
    LET stats == CountPassingTests(features, statsUp)
        out == ProgressSummary(features, cache, webhook, statsUp, idsUp,
                               sinkUp)
        named == IF out.delivered THEN Range(out.payload.completed_tests)
                 ELSE {}
    IN /\ cache' = out.cache
       /\ everNamed' = everNamed \cup named
       /\ namedSincePass' = namedSincePass \cup named
       /\ last' = [op |-> "cycle", result |-> "ok",
                   statsOk |-> statsUp,
                   passing |-> stats.passing, total |-> stats.total,
                   sent |-> out.sent, delivered |-> out.delivered,
                   payload |-> out.payload, fetch |-> out.fetch,
                   changed |-> (out.cache # cache),
                   prev |-> PreviousCall(last),
                   renamed |-> named \cap everNamed,
                   renamedPassing |-> named \cap namedSincePass]
       /\ UNCHANGED <<features, nextId, webhook, createOnly, txn, batch,
                      run>>

PrintProgressSummary ==
  \E statsUp \in BOOLEAN, idsUp \in BOOLEAN, sinkUp \in BOOLEAN :
    ProgressCall(statsUp, idsUp, sinkUp)

\* ------------------------------------ two callers of the progress cycle
\* print_progress_summary taken one request at a time: the stats request,
\* the read of the cache file, the all-passing request, the webhook request
\* and the write of the cache file are steps of their own, and the steps of
\* the other caller and the status changes may fall between them.  The
\* store and the sink answer every request.
NoRun ==
  [pc |-> "idle", passing |-> 0, total |-> 0, prev |-> ReadCache(NoCache),
   ids |-> <<>>, completed |-> <<>>, overlapped |-> FALSE, dup |-> {}]

\* the locals are gone when the call returns; the history fields stay
Returned(r) == [NoRun EXCEPT !.overlapped = r.overlapped, !.dup = r.dup]

StepFrame ==
  UNCHANGED <<features, nextId, webhook, last, createOnly, txn, batch>>

\* passing, total = count_passing_tests(project_dir); total > 0; WEBHOOK_URL
StepCount(c) ==
  LET stats == CountPassingTests(features, TRUE)
      other == \E d \in Callers \ {c} : run[d].pc # "idle"
  IN /\ run[c].pc = "idle"
     /\ run' = [d \in Callers |->
                  IF d = c
                  THEN [NoRun EXCEPT
                          !.pc = IF stats.total > 0 /\ webhook THEN "read"
                                 ELSE "idle",
                          !.passing = stats.passing,
                          !.total = stats.total,
                          !.overlapped = run[c].overlapped \/ other]
                  ELSE [run[d] EXCEPT
                          !.overlapped = @ \/ run[d].pc # "idle"]]
     /\ UNCHANGED <<cache, everNamed, namedSincePass>>
     /\ StepFrame

\* the read of the cache file and the branch taken on passing > previous
StepReadCache(c) ==
  LET prev == ReadCache(cache)
  IN /\ run[c].pc = "read"
     /\ run' = [run EXCEPT ![c] =
                  IF ProgressIncreased(run[c].passing, prev.count)
                  THEN [@ EXCEPT !.pc = "fetch", !.prev = prev]
                  ELSE IF ~cache.exists
                  THEN [@ EXCEPT !.pc = "bootfetch", !.prev = prev]
                  ELSE Returned(@)]
     /\ UNCHANGED <<cache, everNamed, namedSincePass>>
     /\ StepFrame

\* _api_get("/features/all-passing") and the loop over its answer
StepFetch(c) ==
  LET ids == CurrentPassingIds(features, TRUE)
  IN /\ run[c].pc \in {"fetch", "bootfetch"}
     /\ run' = [run EXCEPT ![c] =
                  IF run[c].pc = "fetch"
                  THEN [@ EXCEPT !.pc = "post", !.ids = ids,
                          !.completed = CompletedTests(ids, run[c].prev)]
                  ELSE [@ EXCEPT !.pc = "write", !.ids = ids]]
     /\ UNCHANGED <<cache, everNamed, namedSincePass>>
     /\ StepFrame

\* urllib.request.urlopen(req, timeout=5): the notification is delivered
StepDeliver(c) ==
  LET named == Range(Payload(run[c].passing, run[c].total, run[c].prev,
                             run[c].completed).completed_tests)
  IN /\ run[c].pc = "post"
     /\ everNamed' = everNamed \cup named
     /\ namedSincePass' =
          namedSincePass \cup (named \cap FilterPasses(features, TRUE))
     /\ run' = [run EXCEPT ![c].pc = "write",
                           ![c].dup = named \cap namedSincePass]
     /\ UNCHANGED cache
     /\ StepFrame

\* cache_file.write_text(...), of either branch
StepWrite(c) ==
  /\ run[c].pc = "write"
  /\ cache' = WriteCache(run[c].passing, run[c].ids)
  /\ run' = [run EXCEPT ![c] = Returned(@)]
  /\ UNCHANGED <<everNamed, namedSincePass>>
  /\ StepFrame

\* ------------------------------------------------------ specification
Init ==
  /\ features = NoFeatures
  /\ nextId = 1
  /\ cache \in {NoCache} \cup {LegacyCache(n) : n \in 1..MaxLegacyCount}
  /\ webhook \in BOOLEAN
  /\ last = [op |-> "none", result |-> "ok"]
  /\ createOnly = TRUE
  /\ everNamed = {}
  /\ namedSincePass = {}
  /\ txn = [c \in Callers |-> Idle]
  /\ batch = [i \in Ids |-> 0]
  /\ run = [c \in Callers |-> NoRun]

Next ==
  \/ CreateFeature
  \/ CreateFeaturesBulk
  \/ GetNextFeature
  \/ UpdateFeature
  \/ SkipFeature
  \/ DeleteFeature
  \/ PrintProgressSummary

Spec == Init /\ [][Next]_vars

\* the queue alone: the Feature API calls, no progress webhook
QueueInit == Init /\ ~webhook /\ cache = NoCache

QueueNext ==
  \/ CreateFeature
  \/ CreateFeaturesBulk
  \/ GetNextFeature
  \/ UpdateFeature
  \/ SkipFeature
  \/ DeleteFeature

QueueSpec == QueueInit /\ [][QueueNext]_vars

\* the progress webhook of a single caller, with the calls that change what
\* it reads: features appear, change status and disappear
ProgressNext ==
  \/ CreateFeature
  \/ UpdateFeature
  \/ DeleteFeature
  \/ PrintProgressSummary

ProgressSpec == Init /\ [][ProgressNext]_vars

\* two callers whose create, bulk and skip requests interleave
RaceNext ==
  \E c \in Callers :
    \/ BeginCreate(c)
    \/ BeginBulk(c)
    \/ BeginSkip(c)
    \/ CommitInsert(c)
    \/ CommitSkip(c)

RaceSpec == QueueInit /\ [][RaceNext]_vars

\* the same, with the webhook configured, no cache file at the start, the
\* store and the sink always answering, and the caller running
\* print_progress_summary again and again
PrintProgressSummaryUp == ProgressCall(TRUE, TRUE, TRUE)

LiveInit == Init /\ webhook /\ cache = NoCache

LiveNext ==
  \/ CreateFeature
  \/ UpdateFeature
  \/ DeleteFeature
  \/ PrintProgressSummaryUp

LiveSpec == LiveInit /\ [][LiveNext]_vars /\ WF_vars(PrintProgressSummaryUp)

\* two callers of print_progress_summary, their requests interleaving with
\* each other and with the status changes of the features; the queue was
\* filled by one bulk creation, the webhook is configured and there is no
\* cache file yet
StepInit ==
  \E n \in 1..MaxStepFeatures :
    /\ features = InsertRows(NoFeatures, 1, n, NextPriority(NoFeatures))
    /\ nextId = n + 1
    /\ cache = NoCache
    /\ webhook = TRUE
    /\ last = [op |-> "bulk", id |-> 1, n |-> n, result |-> "ok"]
    /\ createOnly = TRUE
    /\ everNamed = {}
    /\ namedSincePass = {}
    /\ txn = [c \in Callers |-> Idle]
    /\ batch = BatchOfNew([i \in Ids |-> 0], 1, n)
    /\ run = [c \in Callers |-> NoRun]

StepNext ==
  \/ UpdateFeature
  \/ \E c \in Callers :
       \/ StepCount(c)
       \/ StepReadCache(c)
       \/ StepFetch(c)
       \/ StepDeliver(c)
       \/ StepWrite(c)

StepSpec == StepInit /\ [][StepNext]_vars

\* =================================================== properties: the queue
Pending(fs) == {i \in DOMAIN fs : ~fs[i].passes}

\* a is selected before b: (priority, id) of a is below that of b
SelectedBefore(fs, a, b) ==
  \/ fs[a].priority < fs[b].priority
  \/ fs[a].priority = fs[b].priority /\ a < b

\* m holds the largest priority of fs
HoldsMax(fs, m) ==
  m \in DOMAIN fs /\ \A j \in DOMAIN fs : fs[j].priority <= fs[m].priority

\* the step is a call of op that returned ok
OkStep(op) == last'.op = op /\ last'.result = "ok"

\* C1: in every reachable state of the queue, next_pending returns the
\* feature with passes=false that is least in (priority, id), never a feature
\* with passes=true, and NotFound exactly when no feature has passes=false.
C1_NextPendingIsMinimumPending ==
  LET r == NextFeature(features)
  IN /\ (r = 0) <=> (Pending(features) = {})
     /\ r # 0 =>
          /\ r \in DOMAIN features
          /\ ~features[r].passes
          /\ \A j \in Pending(features) \ {r} : SelectedBefore(features, r, j)
     /\ last.op = "next" =>
          /\ last.id = r
          /\ (last.result = "NotFound") <=> (Pending(features) = {})

\* next_pending passed over a passing feature of lower priority and chose
\* between two pending ones
C1_Witness ==
  /\ last.op = "next"
  /\ last.result = "ok"
  /\ \E j \in DOMAIN features :
       features[j].passes /\ features[j].priority < features[last.id].priority
  /\ Cardinality(Pending(features)) >= 2

\* C2: a successful skip(i) sets the priority of i to the largest priority
\* of all features before the call plus one, which is above its old priority;
\* no other feature changes and no passes value changes; skip of an existing
\* feature with passes=false succeeds.
C2_SkipSetsMaxPlusOne ==
  [][\A i \in Ids :
       /\ (OkStep("skip") /\ last'.id = i) =>
            /\ i \in DOMAIN features
            /\ ~features[i].passes
            /\ DOMAIN features' = DOMAIN features
            /\ \E m \in DOMAIN features :
                 /\ HoldsMax(features, m)
                 /\ features'[i].priority = features[m].priority + 1
            /\ features'[i].priority > features[i].priority
            /\ features'[i].passes = features[i].passes
            /\ \A j \in DOMAIN features \ {i} : features'[j] = features[j]
       /\ (last'.op = "skip" /\ last'.id = i /\ i \in DOMAIN features
             /\ ~features[i].passes) => last'.result = "ok"
    ]_vars

\* a skip succeeded among several features, one of them passing, and left a
\* gap below the skipped feature (it moved by more than one place)
C2_Witness ==
  /\ last.op = "skip"
  /\ last.result = "ok"
  /\ Cardinality(DOMAIN features) >= 3
  /\ \E j \in DOMAIN features : features[j].passes
  /\ \A j \in DOMAIN features \ {last.id} :
       features[j].priority + 1 < features[last.id].priority

\* C3: right after a successful skip(i) every other feature is selected
\* before i, so next_pending returns i only when i is the only pending
\* feature; and a feature given a priority by a create or a skip is selected
\* after every feature that kept its priority.
C3_SkippedIsLast ==
  [][/\ \A i \in Ids :
          (OkStep("skip") /\ last'.id = i) =>
            /\ \A j \in DOMAIN features' \ {i} :
                 SelectedBefore(features', j, i)
            /\ NextFeature(features') = i => Pending(features') = {i}
     /\ (OkStep("skip") \/ OkStep("create") \/ OkStep("bulk")) =>
          \A k \in DOMAIN features', j \in DOMAIN features :
            ( /\ j \in DOMAIN features'
              /\ features'[j] = features[j]
              /\ (k \notin DOMAIN features
                    \/ features'[k].priority # features[k].priority) )
            => SelectedBefore(features', j, k)
    ]_vars

\* a skip of the feature next_pending would have returned: two others are
\* pending and one of them is now next
C3_Witness ==
  /\ last.op = "skip"
  /\ last.result = "ok"
  /\ Cardinality(Pending(features)) >= 3
  /\ NextFeature(features) # last.id
  /\ \A j \in DOMAIN features : last.id <= j

\* C4: skip of a passing feature returns InvalidState, skip of an absent id
\* returns NotFound, each only in that case, and neither changes the store.
C4_SkipRejections ==
  [][\A i \in Ids :
       (last'.op = "skip" /\ last'.id = i) =>
         /\ (i \notin DOMAIN features) <=> (last'.result = "NotFound")
         /\ (i \in DOMAIN features /\ features[i].passes)
              <=> (last'.result = "InvalidState")
         /\ last'.result \in {"NotFound", "InvalidState"} =>
              /\ features' = features
              /\ nextId' = nextId
    ]_vars

\* skip was refused on a passing feature while another id is absent
C4_Witness ==
  /\ last.op = "skip"
  /\ last.result = "InvalidState"
  /\ features[last.id].passes
  /\ \E j \in Ids : j \notin DOMAIN features

\* C5: a create or create_bulk of n items gives the new features, in input
\* order, the priorities start .. start+n-1, where start is the largest
\* existing priority plus one, or 1 in an empty queue, each with
\* passes=false, and changes no existing feature; as long as only creates
\* have changed the priorities, they increase strictly in creation order.
C5_CreatePriorities ==
  /\ [](createOnly =>
          \A i, j \in DOMAIN features :
            i < j => features[i].priority < features[j].priority)
  /\ [][(OkStep("create") \/ OkStep("bulk")) =>
          LET n == IF last'.op = "bulk" THEN last'.n ELSE 1
              first == last'.id
          IN /\ first = nextId
             /\ DOMAIN features' = DOMAIN features \cup (first..(first + n - 1))
             /\ (first..(first + n - 1)) \cap DOMAIN features = {}
             /\ \A j \in DOMAIN features : features'[j] = features[j]
             /\ \A k \in 0..(n - 1) :
                  /\ ~features'[first + k].passes
                  /\ IF DOMAIN features = {}
                     THEN features'[first + k].priority = 1 + k
                     ELSE \E m \in DOMAIN features :
                            /\ HoldsMax(features, m)
                            /\ features'[first + k].priority
                                 = features[m].priority + 1 + k
       ]_vars

\* a batch of two was added behind an existing feature
C5_Witness ==
  /\ last.op = "bulk"
  /\ last.result = "ok"
  /\ last.n = 2
  /\ last.id > 1
  /\ createOnly
  /\ {last.id, last.id + 1} \subseteq DOMAIN features

\* C6: with every call atomic, no two existing features have the same
\* priority.
C6_PrioritiesUnique ==
  \A i, j \in DOMAIN features :
    i # j => features[i].priority # features[j].priority

\* a create after a skip or a delete, among other features
C6_Witness ==
  /\ last.op = "create"
  /\ last.result = "ok"
  /\ ~createOnly
  /\ Cardinality(DOMAIN features) >= 2

\* ======================================= properties: the progress webhook
PassingNow == {i \in DOMAIN features : features[i].passes}

LegacyShape(c) == c.exists /\ c.passing_ids = {} /\ c.count > 0

\* the ids named by the notification of the last call
Named(l) == Range(l.payload.completed_tests)

\* C7: a cycle that starts from a snapshot S that is not of the old format,
\* with the webhook configured and the counts read, and finds a passing set
\* P with |P| > S.count, sends a notification that reports S.count as the
\* previous count and |P| - S.count as the delta; when the passing ids are
\* read and the sink takes the request, it names exactly P minus
\* S.passing_ids and the snapshot written is {count: |P|, passing_ids: P}.
C7_DeltaFromSnapshot ==
  [][( /\ last'.op = "cycle"
       /\ webhook
       /\ last'.statsOk
       /\ ~LegacyShape(cache)
       /\ Cardinality(PassingNow) > cache.count )
     => /\ last'.sent
        /\ last'.payload.previous_passing = cache.count
        /\ last'.payload.tests_completed_this_session
             = Cardinality(PassingNow) - cache.count
        /\ last'.payload.passing = Cardinality(PassingNow)
        /\ (last'.fetch = "ok" /\ last'.delivered) =>
             /\ Named(last') = PassingNow \ cache.passing_ids
             /\ Len(last'.payload.completed_tests)
                  = Cardinality(PassingNow \ cache.passing_ids)
             /\ cache' = [exists |-> TRUE, count |-> Cardinality(PassingNow),
                          passing_ids |-> PassingNow]
    ]_vars

\* a delivered notification that names a feature on top of a snapshot that
\* already held one
C7_Witness ==
  /\ last.op = "cycle"
  /\ last.delivered
  /\ last.fetch = "ok"
  /\ last.payload.previous_passing >= 1
  /\ Named(last) # {}
  /\ cache.passing_ids \ Named(last) # {}

\* C8 as stated: no delivered notification names an id that an earlier
\* delivered notification named.
C8_NeverNamedTwice ==
  last.op = "cycle" => last.renamed = {}

\* C8, amended: no delivered notification names an id that was already
\* named since that feature last became passing.
C8_NamedOncePerPassingPeriod ==
  last.op = "cycle" => last.renamedPassing = {}

\* a delivered notification names one feature while another, named before,
\* is still passing and is not named again
C8_Witness ==
  /\ last.op = "cycle"
  /\ last.delivered
  /\ Named(last) # {}
  /\ \E i \in namedSincePass \ Named(last) :
       i \in DOMAIN features /\ features[i].passes

C10_SinkFailureKeepsCheckpoint ==
  (last.op = "cycle" /\ last.sent) =>
    /\ last.result = "ok"
    /\ cache = [exists |-> TRUE, count |-> last.passing,
                passing_ids |-> IF last.fetch = "ok" THEN PassingNow ELSE {}]
    /\ last.passing = Cardinality(PassingNow)

\* the sink refused a notification about two passing features
C10_Witness ==
  /\ last.op = "cycle"
  /\ last.sent
  /\ ~last.delivered
  /\ last.fetch = "ok"
  /\ last.passing >= 2
  /\ cache.passing_ids = PassingNow

\* C11: a cycle in which a read of the store fails (the stats request or
\* the all-passing request) sends no notification and leaves the snapshot as
\* it was.
C11_StoreFailureAborts ==
  (last.op = "cycle" /\ (~last.statsOk \/ last.fetch = "failed"))
    => (~last.sent /\ ~last.changed)

\* C12: a cycle that starts from an old-format snapshot (no ids, count > 0),
\* with the webhook configured and the counts read, and finds |P| > count,
\* sends a notification with delta |P| - count that names nothing, returns
\* normally, and, the passing ids read, writes {count: |P|, passing_ids: P},
\* which is not of the old format.
C12_LegacyDegradation ==
  [][( /\ last'.op = "cycle"
       /\ webhook
       /\ last'.statsOk
       /\ LegacyShape(cache)
       /\ Cardinality(PassingNow) > cache.count )
     => /\ last'.sent
        /\ last'.result = "ok"
        /\ last'.payload.completed_tests = <<>>
        /\ last'.payload.previous_passing = cache.count
        /\ last'.payload.tests_completed_this_session
             = Cardinality(PassingNow) - cache.count
        /\ last'.fetch = "ok" =>
             /\ cache' = [exists |-> TRUE, count |-> Cardinality(PassingNow),
                          passing_ids |-> PassingNow]
             /\ ~LegacyShape(cache')
    ]_vars

\* a notification about an increase of one over an old-format count of two
\* named nothing and left a snapshot with three ids
C12_Witness ==
  /\ last.op = "cycle"
  /\ last.sent
  /\ last.fetch = "ok"
  /\ last.payload.previous_passing = 2
  /\ last.payload.tests_completed_this_session = 1
  /\ last.payload.completed_tests = <<>>
  /\ Cardinality(cache.passing_ids) = 3

\* C14: set_passes(i, v) returns NotFound exactly for an absent id and then
\* changes nothing; otherwise it sets passes of i to v and changes no
\* priority and no other feature; applied again with the same arguments it
\* changes nothing.
C14_SetPassesIdempotent ==
  /\ [](\A i \in DOMAIN features, v \in BOOLEAN :
          SetPasses(SetPasses(features, i, v), i, v)
            = SetPasses(features, i, v))
  /\ [][\A i \in Ids :
          (last'.op = "set_passes" /\ last'.id = i) =>
            /\ (i \notin DOMAIN features) <=> (last'.result = "NotFound")
            /\ last'.result = "NotFound" =>
                 (features' = features /\ nextId' = nextId)
            /\ last'.result = "ok" =>
                 /\ DOMAIN features' = DOMAIN features
                 /\ features'[i].passes = last'.value
                 /\ features'[i].priority = features[i].priority
                 /\ \A j \in DOMAIN features \ {i} : features'[j] = features[j]
            /\ last'.again => features' = features
       ]_vars

\* the same successful set_passes(i, TRUE) was made twice in a row, beside a
\* feature that is still pending
C14_Witness ==
  /\ last.op = "set_passes"
  /\ last.again
  /\ last.value
  /\ features[last.id].passes
  /\ \E j \in DOMAIN features : ~features[j].passes

\* C17: with the webhook configured and counts read that show a feature, a
\* cycle that finds no snapshot and no passing feature sends nothing and
\* writes the snapshot {count: 0, passing_ids: {}} of the current passing
\* set; a cycle that finds a snapshot and |P| <= its count sends nothing and
\* leaves the snapshot as it is.
C17_BootstrapAndNoDelta ==
  [][( /\ last'.op = "cycle"
       /\ webhook
       /\ last'.statsOk
       /\ last'.total > 0 )
     => /\ (~cache.exists /\ Cardinality(PassingNow) <= 0) =>
             /\ ~last'.sent
             /\ cache' = [exists |-> TRUE, count |-> Cardinality(PassingNow),
                          passing_ids |-> PassingNow]
        /\ (cache.exists /\ Cardinality(PassingNow) <= cache.count) =>
             /\ ~last'.sent
             /\ cache' = cache
    ]_vars

\* the first cycle, with features but none passing, wrote the initial
\* snapshot without a notification
C17_Witness ==
  /\ last.op = "cycle"
  /\ last.statsOk
  /\ last.total > 0
  /\ ~last.sent
  /\ last.changed
  /\ cache = [exists |-> TRUE, count |-> 0, passing_ids |-> {}]

\* C18: a cycle that reads total = 0 sends nothing and neither creates nor
\* changes the snapshot.
C18_NoFeaturesNoOp ==
  (last.op = "cycle" /\ last.total = 0) => (~last.sent /\ ~last.changed)

\* the store answered that there are no features; no snapshot was created
C18_Witness ==
  /\ last.op = "cycle"
  /\ last.statsOk
  /\ last.total = 0
  /\ webhook
  /\ ~cache.exists

\* C19: once a snapshot exists it stays, its count never decreases, it is
\* rewritten only by a cycle whose passing count is above its count, and a
\* cycle whose passing count is not above it sends nothing.
C19_CountIsHighWaterMark ==
  [][cache.exists =>
       /\ cache'.exists
       /\ cache'.count >= cache.count
       /\ cache' # cache =>
            (last'.op = "cycle" /\ last'.passing > cache.count)
       /\ (last'.op = "cycle" /\ last'.passing <= cache.count) =>
            (~last'.sent /\ cache' = cache)
    ]_vars

\* after the passing count dropped, a feature that is passing and not in
\* the snapshot went unnotified by a cycle
C19_Witness ==
  /\ last.op = "cycle"
  /\ last.statsOk
  /\ webhook
  /\ last.passing >= 1
  /\ last.passing < cache.count
  /\ ~last.sent
  /\ \E i \in PassingNow : i \notin cache.passing_ids
  /\ cache.passing_ids # {}

\* C20: every snapshot a cycle writes has count = |passing_ids|, so it is
\* never of the old format.
C20_WrittenSnapshotConsistent ==
  (last.op = "cycle" /\ last.changed) =>
    /\ cache.count = Cardinality(cache.passing_ids)
    /\ ~LegacyShape(cache)

\* C13: with the store and the sink always answering and cycles run again
\* and again, a feature that is passing and is not in the existing snapshot
\* (it became passing after the snapshot was written) is eventually named in
\* a delivered notification, unless it stops passing.
C13_EventuallyNamed ==
  \A f \in Ids :
    (cache.exists /\ f \in PassingNow /\ f \notin cache.passing_ids
       /\ f \notin namedSincePass)
    ~> (f \in namedSincePass \/ f \notin PassingNow)

\* C15: when create, bulk and skip requests of two callers interleave and
\* all have finished, the rows of a bulk batch that were not skipped since
\* are in input order with no other feature between them in the selection
\* order, as after any serial execution of the same requests.
C15_BatchesStayTogether ==
  (\A c \in Callers : txn[c] = Idle) =>
    \A a, b \in DOMAIN features :
      (a < b /\ batch[a] # 0 /\ batch[a] = batch[b]) =>
        /\ SelectedBefore(features, a, b)
        /\ \A x \in DOMAIN features :
             batch[x] # batch[a] =>
               ~(SelectedBefore(features, a, x)
                   /\ SelectedBefore(features, x, b))

\* C16: two callers run the progress cycle with no mutual exclusion.  A
\* delivered notification names a feature that was already named since it
\* last became passing only when cycles of the two callers have overlapped:
\* cycles that run one after the other never name a feature twice.
C16_DuplicateOnlyInOverlap ==
  \A c \in Callers : run[c].dup # {} => run[c].overlapped

\* two overlapping cycles have both delivered a notification naming the same
\* newly passing feature
C16_Witness ==
  \E c \in Callers :
    /\ run[c].dup # {}
    /\ run[c].overlapped
    /\ run[c].dup \subseteq everNamed \cap FilterPasses(features, TRUE)

\* C21: every notification that a cycle builds on a snapshot that is not of
\* the old format, with the counts and the passing ids read from the store,
\* names as many features as the delta it reports:
\* len(completed_tests) = passing - previous_passing.
C21_NamedCountIsDelta ==
  [][( /\ last'.op = "cycle"
       /\ last'.sent
       /\ last'.statsOk
       /\ last'.fetch = "ok"
       /\ ~LegacyShape(cache) )
     => Len(last'.payload.completed_tests)
          = last'.payload.tests_completed_this_session
    ]_vars

====
